---------------------------- MODULE Spec2Model ----------------------------
(***************************************************************************)
(* sns-to-slack: an AWS Lambda function that turns an SNS notification     *)
(* into a Slack message (src/index.js) and the AWS Config change filter    *)
(* it applies to parsed messages (src/filters/config-changes.js).          *)
(*                                                                         *)
(* Strings are sequences of one-character strings, so that indexOf, the    *)
(* regular expressions, JSON.parse and JSON.stringify are computed         *)
(* character by character.  JavaScript values are tagged records; an       *)
(* object keeps its properties in creation order (ks, vs) and ObjectKeys   *)
(* gives the order the language enumerates them in.                        *)
(***************************************************************************)
EXTENDS Integers, Sequences, FiniteSets, TLC

VARIABLES
  fn,       \* the entry point that was called
  pc,       \* "called", "returned", "threw", "sent", "responded", "failed"
  arg,      \* the argument: the Sns record, a string, or a plain object
  doc,      \* what the producer serialised into the text (NoDoc: not JSON)
  heap,     \* the object graph rooted at the filter's argument
  ret       \* what the call returned

vars == <<fn, pc, arg, doc, heap, ret>>

----------------------------------------------------------------------------
(* Constants of src/index.js and src/filters/config-changes.js *)

INDEX_OF_NOT_PRESENT == -1
ONE_PROPERTY == 1
TWO_PROPERTIES == 2
SLACK_COLUMN_LENGTH == 28

\* process.env.DEBUG is unset in the modelled deployment: the debug echo only
\* logs and appends a dump of the event to the outer text.
DEBUG == FALSE

dangerMessages ==
  << <<" ", "b", "u", "t", " ", "w", "i", "t", "h", " ", "e", "r", "r", "o", "r", "s">>,
     <<" ", "t", "o", " ", "R", "E", "D">>,
     <<"D", "u", "r", "i", "n", "g", " ", "a", "n", " ", "a", "b", "o", "r", "t", "e", "d", " ", "d", "e", "p", "l", "o", "y", "m", "e", "n", "t">>,
     <<"F", "a", "i", "l", "e", "d", " ", "t", "o", " ", "d", "e", "p", "l", "o", "y", " ", "a", "p", "p", "l", "i", "c", "a", "t", "i", "o", "n">>,
     <<"F", "a", "i", "l", "e", "d", " ", "t", "o", " ", "d", "e", "p", "l", "o", "y", " ", "c", "o", "n", "f", "i", "g", "u", "r", "a", "t", "i", "o", "n">>,
     <<"h", "a", "s", " ", "a", " ", "d", "e", "p", "e", "n", "d", "e", "n", "t", " ", "o", "b", "j", "e", "c", "t">>,
     <<"i", "s", " ", "n", "o", "t", " ", "a", "u", "t", "h", "o", "r", "i", "z", "e", "d", " ", "t", "o", " ", "p", "e", "r", "f", "o", "r", "m">>,
     <<"P", "e", "n", "d", "i", "n", "g", " ", "t", "o", " ", "D", "e", "g", "r", "a", "d", "e", "d">>,
     <<"S", "t", "a", "c", "k", " ", "d", "e", "l", "e", "t", "i", "o", "n", " ", "f", "a", "i", "l", "e", "d">>,
     <<"U", "n", "s", "u", "c", "c", "e", "s", "s", "f", "u", "l", " ", "c", "o", "m", "m", "a", "n", "d", " ", "e", "x", "e", "c", "u", "t", "i", "o", "n">>,
     <<"Y", "o", "u", " ", "d", "o", " ", "n", "o", "t", " ", "h", "a", "v", "e", " ", "p", "e", "r", "m", "i", "s", "s", "i", "o", "n">>,
     <<"Y", "o", "u", "r", " ", "q", "u", "o", "t", "a", " ", "a", "l", "l", "o", "w", "s", " ", "f", "o", "r", " ", "0", " ", "m", "o", "r", "e", " ", "r", "u", "n", "n", "i", "n", "g", " ", "i", "n", "s", "t", "a", "n", "c", "e">>,
     <<" ", "h", "a", "s", " ", "r", "e", "a", "c", "h", "e", "d", " ", "t", "h", "e", " ", "b", "u", "i", "l", "d", " ", "s", "t", "a", "t", "u", "s", " ", "o", "f", " ", "'", "F", "A", "I", "L", "E", "D", "'">> >>

warningMessages ==
  << <<" ", "a", "b", "o", "r", "t", "e", "d", " ", "o", "p", "e", "r", "a", "t", "i", "o", "n", ".">>,
     <<" ", "t", "o", " ", "Y", "E", "L", "L", "O", "W">>,
     <<"A", "d", "d", "i", "n", "g", " ", "i", "n", "s", "t", "a", "n", "c", "e", " ">>,
     <<"D", "e", "g", "r", "a", "d", "e", "d", " ", "t", "o", " ", "I", "n", "f", "o">>,
     <<"D", "e", "l", "e", "t", "i", "n", "g", " ", "S", "N", "S", " ", "t", "o", "p", "i", "c">>,
     <<"i", "s", " ", "c", "u", "r", "r", "e", "n", "t", "l", "y", " ", "r", "u", "n", "n", "i", "n", "g", " ", "u", "n", "d", "e", "r", " ", "d", "e", "s", "i", "r", "e", "d", " ", "c", "a", "p", "a", "c", "i", "t", "y">>,
     <<"O", "k", " ", "t", "o", " ", "I", "n", "f", "o">>,
     <<"O", "k", " ", "t", "o", " ", "W", "a", "r", "n", "i", "n", "g">>,
     <<"P", "e", "n", "d", "i", "n", "g", " ", "I", "n", "i", "t", "i", "a", "l", "i", "z", "a", "t", "i", "o", "n">>,
     <<"R", "e", "m", "o", "v", "e", "d", " ", "i", "n", "s", "t", "a", "n", "c", "e", " ">>,
     <<"R", "o", "l", "l", "b", "a", "c", "k", " ", "o", "f", " ", "e", "n", "v", "i", "r", "o", "n", "m", "e", "n", "t">>,
     <<" ", "h", "a", "s", " ", "r", "e", "a", "c", "h", "e", "d", " ", "t", "h", "e", " ", "b", "u", "i", "l", "d", " ", "s", "t", "a", "t", "u", "s", " ", "o", "f", " ", "'", "I", "N", "_", "P", "R", "O", "G", "R", "E", "S", "S", "'">> >>

K_configurationItemDiff ==
  <<"c", "o", "n", "f", "i", "g", "u", "r", "a", "t", "i", "o", "n", "I", "t", "e", "m", "D", "i", "f", "f">>

K_changedProperties ==
  <<"c", "h", "a", "n", "g", "e", "d", "P", "r", "o", "p", "e", "r", "t", "i", "e", "s">>

K_changeType ==
  <<"c", "h", "a", "n", "g", "e", "T", "y", "p", "e">>

K_messageType ==
  <<"m", "e", "s", "s", "a", "g", "e", "T", "y", "p", "e">>

S_ConfigurationItemChangeNotification ==
  <<"C", "o", "n", "f", "i", "g", "u", "r", "a", "t", "i", "o", "n", "I", "t", "e", "m", "C", "h", "a", "n", "g", "e", "N", "o", "t", "i", "f", "i", "c", "a", "t", "i", "o", "n">>

sampleArn ==
  <<"a", "r", "n", ":", "a", "w", "s", ":", "s", "n", "s", ":", "a", "p", "-", "s", "o", "u", "t", "h", "e", "a", "s", "t", "-", "2", ":", "8", "7", "3", "1", "1", "4", "5", "2", "6", "7", "1", "4", ":", "c", "o", "d", "e", "b", "u", "i", "l", "d", "-", "n", "o", "t", "i", "f", "i", "c", "a", "t", "i", "o", "n", "s">>

failedBuildText ==
  <<"\"", "B", "u", "i", "l", "d", " ", "'", "s", "o", "m", "e", "-", "r", "e", "p", "o", "-", "a", "r", "n", ":", "s", "o", "m", "e", "-", "c", "o", "m", "m", "i", "t", "-", "h", "a", "s", "h", "'", " ", "f", "o", "r", " ", "b", "u", "i", "l", "d", " ", "p", "r", "o", "j", "e", "c", "t", " ", "'", "s", "o", "m", "e", "-", "p", "r", "o", "j", "e", "c", "t", "'", " ", "h", "a", "s", " ", "r", "e", "a", "c", "h", "e", "d", " ", "t", "h", "e", " ", "b", "u", "i", "l", "d", " ", "s", "t", "a", "t", "u", "s", " ", "o", "f", " ", "'", "F", "A", "I", "L", "E", "D", "'", ".", "\"">>

inProgressBuildText ==
  <<"\"", "B", "u", "i", "l", "d", " ", "'", "s", "o", "m", "e", "-", "r", "e", "p", "o", "-", "a", "r", "n", ":", "s", "o", "m", "e", "-", "c", "o", "m", "m", "i", "t", "-", "h", "a", "s", "h", "'", " ", "f", "o", "r", " ", "b", "u", "i", "l", "d", " ", "p", "r", "o", "j", "e", "c", "t", " ", "'", "s", "o", "m", "e", "-", "p", "r", "o", "j", "e", "c", "t", "'", " ", "h", "a", "s", " ", "r", "e", "a", "c", "h", "e", "d", " ", "t", "h", "e", " ", "b", "u", "i", "l", "d", " ", "s", "t", "a", "t", "u", "s", " ", "o", "f", " ", "'", "I", "N", "_", "P", "R", "O", "G", "R", "E", "S", "S", "'", ".", "\"">>

genericText ==
  <<"T", "h", "i", "s", " ", "i", "s", " ", "a", " ", "g", "e", "n", "e", "r", "i", "c", " ", "n", "o", "t", "i", "f", "i", "c", "a", "t", "i", "o", "n", ".">>

----------------------------------------------------------------------------
(* JavaScript values *)

Undefined == [t |-> "undefined"]
Null == [t |-> "null"]
Bool(b) == [t |-> "bool", b |-> b]
Num(n) == [t |-> "num", n |-> n]
Str(s) == [t |-> "str", s |-> s]
Obj(ks, vs) == [t |-> "obj", ks |-> ks, vs |-> vs]

Quote == "\""
Backslash == "\\"
DigitChars == <<"0", "1", "2", "3", "4", "5", "6", "7", "8", "9">>
Whitespace == {" ", "\n", "\t", "\r"}
LineTerminators == {"\n", "\r"}

\* The least element of a non-empty set of integers.
Least(S) == CHOOSE i \in S : \A k \in S : i <= k

IsDigit(c) == \E d \in 1..10 : DigitChars[d] = c
DigitVal(c) == (CHOOSE d \in 1..10 : DigitChars[d] = c) - 1

RECURSIVE NumToChars(_)
NumToChars(n) ==
  IF n < 0 THEN <<"-">> \o NumToChars(0 - n)
  ELSE IF n < 10 THEN <<DigitChars[n + 1]>>
  ELSE NumToChars(n \div 10) \o <<DigitChars[(n % 10) + 1]>>

RECURSIVE CharsToNum(_)
CharsToNum(s) ==
  IF s = <<>> THEN 0
  ELSE CharsToNum(SubSeq(s, 1, Len(s) - 1)) * 10 + DigitVal(s[Len(s)])

\* An array is an object whose property names are its indices.
Arr(vs) == [t |-> "arr", ks |-> [i \in 1..Len(vs) |-> NumToChars(i - 1)], vs |-> vs]

IsObject(v) == v.t \in {"obj", "arr"}

\* typeof
TypeOf(v) ==
  CASE v.t = "undefined" -> "undefined"
    [] v.t = "bool" -> "boolean"
    [] v.t = "num" -> "number"
    [] v.t = "str" -> "string"
    [] OTHER -> "object"

\* ToBoolean
Truthy(v) ==
  CASE v.t \in {"undefined", "null"} -> FALSE
    [] v.t = "bool" -> v.b
    [] v.t = "num" -> v.n # 0
    [] v.t = "str" -> v.s # <<>>
    [] OTHER -> TRUE

\* 'object' === typeof v && null !== v, which lets arrays through.
isObjectType(v) == v.t \in {"obj", "arr"}

\* is-plain-obj: an object literal, not an array, not null, not a primitive.
isPlainObj(v) == v.t = "obj"

\* A canonical array index: "0", or digits without a leading zero (names of
\* more than nine digits are outside the model).
IsArrayIndex(k) ==
  /\ Len(k) \in 1..9
  /\ \A i \in 1..Len(k) : IsDigit(k[i])
  /\ (Len(k) = 1 \/ k[1] # "0")

IsNamedKey(k) == ~IsArrayIndex(k)

RECURSIVE SortAscending(_)
SortAscending(ks) ==
  IF ks = <<>> THEN <<>>
  ELSE LET m == CHOOSE i \in 1..Len(ks) :
                  \A j \in 1..Len(ks) : CharsToNum(ks[i]) <= CharsToNum(ks[j])
       IN <<ks[m]>> \o SortAscending(SubSeq(ks, 1, m - 1) \o SubSeq(ks, m + 1, Len(ks)))

\* Object.keys: array indices in ascending order, then the other names in
\* creation order.  It throws on null and undefined (see ObjectKeysThrows).
ObjectKeys(o) ==
  SortAscending(SelectSeq(o.ks, IsArrayIndex)) \o SelectSeq(o.ks, IsNamedKey)

ObjectKeysThrows(v) == v.t \in {"null", "undefined"}

HasOwn(o, k) == IsObject(o) /\ \E i \in 1..Len(o.ks) : o.ks[i] = k

\* o[k]: a missing property, or a named property of a primitive, is undefined.
Get(o, k) ==
  IF HasOwn(o, k) THEN o.vs[CHOOSE i \in 1..Len(o.ks) : o.ks[i] = k] ELSE Undefined

\* o[k] = v on an object: replaces the value in place or creates the property.
Put(o, k, v) ==
  IF HasOwn(o, k)
    THEN [o EXCEPT !.vs[CHOOSE i \in 1..Len(o.ks) : o.ks[i] = k] = v]
    ELSE [o EXCEPT !.ks = Append(o.ks, k), !.vs = Append(o.vs, v)]

\* The value at a path of property names below root, and root with the value at
\* a path replaced.
RECURSIVE GetPath(_, _)
GetPath(root, path) ==
  IF path = <<>> THEN root ELSE GetPath(Get(root, Head(path)), Tail(path))

RECURSIVE PutPath(_, _, _)
PutPath(root, path, v) ==
  IF path = <<>> THEN v
  ELSE Put(root, Head(path), PutPath(Get(root, Head(path)), Tail(path), v))

----------------------------------------------------------------------------
(* JSON.stringify *)

EscapeChar(c) ==
  CASE c \in {Quote, Backslash} -> <<Backslash, c>>
    [] c = "\n" -> <<Backslash, "n">>
    [] c = "\t" -> <<Backslash, "t">>
    [] c = "\r" -> <<Backslash, "r">>
    [] OTHER -> <<c>>

NeedsEscape == {Quote, Backslash, "\n", "\t", "\r"}

RECURSIVE EscapeChars(_)
EscapeChars(s) ==
  IF \A i \in 1..Len(s) : s[i] \notin NeedsEscape THEN s
  ELSE EscapeChar(Head(s)) \o EscapeChars(Tail(s))

QuoteString(s) == <<Quote>> \o EscapeChars(s) \o <<Quote>>

RECURSIVE JoinWithCommas(_)
JoinWithCommas(parts) ==
  IF parts = <<>> THEN <<>>
  ELSE IF Len(parts) = 1 THEN parts[1]
  ELSE parts[1] \o <<",">> \o JoinWithCommas(Tail(parts))

\* The JSON text of a value; an object's properties are written in the order
\* ObjectKeys gives (JSON.stringify) or in creation order (a producer's text).
RECURSIVE Serialise(_, _)
Serialise(v, inKeyOrder) ==
  CASE v.t = "null" -> <<"n", "u", "l", "l">>
    [] v.t = "bool" -> IF v.b THEN <<"t", "r", "u", "e">> ELSE <<"f", "a", "l", "s", "e">>
    [] v.t = "num" -> NumToChars(v.n)
    [] v.t = "str" -> QuoteString(v.s)
    [] v.t = "arr" ->
         LET n == Len(SelectSeq(v.ks, IsArrayIndex))
         IN <<"[">> \o JoinWithCommas([i \in 1..n |->
                         Serialise(Get(v, NumToChars(i - 1)), inKeyOrder)]) \o <<"]">>
    [] v.t = "obj" ->
         LET keys == IF inKeyOrder THEN ObjectKeys(v) ELSE v.ks
         IN <<"{">> \o JoinWithCommas([i \in 1..Len(keys) |->
                         QuoteString(keys[i]) \o <<":">>
                           \o Serialise(Get(v, keys[i]), inKeyOrder)]) \o <<"}">>

JSONStringify(v) == Serialise(v, TRUE)

----------------------------------------------------------------------------
(* JSON.parse: null, true, false, integers, strings with the escapes        *)
(* \" \\ \/ \n \t \r, arrays and objects, with insignificant whitespace.    *)
(* Fractions, exponents and the escapes \b \f \u are outside the alphabet    *)
(* of the modelled texts.                                                    *)

Fail == [ok |-> FALSE, v |-> Undefined, i |-> 0]
Ok(v, i) == [ok |-> TRUE, v |-> v, i |-> i]

\* The character at 1-based position i, "" past the end.
CharAt(t, i) == IF i \in 1..Len(t) THEN t[i] ELSE ""

StartsWithAt(t, w, i) ==
  /\ i + Len(w) - 1 <= Len(t)
  /\ \A j \in 1..Len(w) : t[i + j - 1] = w[j]

RECURSIVE SkipWhitespace(_, _)
SkipWhitespace(t, i) ==
  IF CharAt(t, i) \in Whitespace THEN SkipWhitespace(t, i + 1) ELSE i

Unescape(c) ==
  CASE c = "n" -> "\n"
    [] c = "t" -> "\t"
    [] c = "r" -> "\r"
    [] OTHER -> c

\* The characters of a string literal from position i (after the opening
\* quote), added to acc: the plain characters up to the next quote, backslash
\* or control character, then that character's case.
RECURSIVE ParseString(_, _, _)
ParseString(t, i, acc) ==
  LET special == {j \in i..Len(t) : t[j] \in {Quote, Backslash, "\n", "\t", "\r"}}
      j == Least(special)
      plain == acc \o SubSeq(t, i, j - 1)
  IN IF special = {} THEN Fail
     ELSE IF t[j] = Quote THEN Ok(plain, j + 1)
     ELSE IF t[j] = Backslash /\ CharAt(t, j + 1) \in {Quote, Backslash, "/", "n", "t", "r"}
       THEN ParseString(t, j + 2, Append(plain, Unescape(CharAt(t, j + 1))))
     ELSE Fail

RECURSIVE DigitsEnd(_, _)
DigitsEnd(t, i) == IF IsDigit(CharAt(t, i)) THEN DigitsEnd(t, i + 1) ELSE i

\* An integer from position i: -? ( 0 | [1-9][0-9]* ).
ParseNumber(t, i) ==
  LET neg == CharAt(t, i) = "-"
      s == IF neg THEN i + 1 ELSE i
      e == IF CharAt(t, s) = "0" THEN s + 1 ELSE DigitsEnd(t, s)
      n == CharsToNum(SubSeq(t, s, e - 1))
  IN IF e = s THEN Fail ELSE Ok(Num(IF neg THEN 0 - n ELSE n), e)

RECURSIVE ParseValue(_, _)
RECURSIVE ParseMember(_, _, _)
RECURSIVE ParseElement(_, _, _)

\* One "name": value member from position i, added to o, then "," or "}".
ParseMember(t, i, o) ==
  LET q == SkipWhitespace(t, i)
      Ended(with, e) ==
        IF CharAt(t, e) = "," THEN ParseMember(t, e + 1, with)
        ELSE IF CharAt(t, e) = "}" THEN Ok(with, e + 1)
        ELSE Fail
      Valued(name, v) ==
        IF v.ok THEN Ended(Put(o, name, v.v), SkipWhitespace(t, v.i)) ELSE Fail
      Named(k) ==
        IF k.ok /\ CharAt(t, SkipWhitespace(t, k.i)) = ":"
          THEN Valued(k.v, ParseValue(t, SkipWhitespace(t, k.i) + 1))
          ELSE Fail
  IN IF CharAt(t, q) = Quote THEN Named(ParseString(t, q + 1, <<>>)) ELSE Fail

\* One array element from position i, appended to vs, then "," or "]".
ParseElement(t, i, vs) ==
  LET Ended(with, e) ==
        IF CharAt(t, e) = "," THEN ParseElement(t, e + 1, with)
        ELSE IF CharAt(t, e) = "]" THEN Ok(Arr(with), e + 1)
        ELSE Fail
      Valued(v) ==
        IF v.ok THEN Ended(Append(vs, v.v), SkipWhitespace(t, v.i)) ELSE Fail
  IN Valued(ParseValue(t, i))

ParseValue(t, i0) ==
  LET i == SkipWhitespace(t, i0)
      c == CharAt(t, i)
      n == SkipWhitespace(t, i + 1)
  IN CASE c = "{" ->
            IF CharAt(t, n) = "}" THEN Ok(Obj(<<>>, <<>>), n + 1)
            ELSE ParseMember(t, n, Obj(<<>>, <<>>))
       [] c = "[" ->
            IF CharAt(t, n) = "]" THEN Ok(Arr(<<>>), n + 1)
            ELSE ParseElement(t, n, <<>>)
       [] c = Quote ->
            LET Quoted(s) == IF s.ok THEN Ok(Str(s.v), s.i) ELSE Fail
            IN Quoted(ParseString(t, i + 1, <<>>))
       [] c = "t" /\ StartsWithAt(t, <<"t", "r", "u", "e">>, i) -> Ok(Bool(TRUE), i + 4)
       [] c = "f" /\ StartsWithAt(t, <<"f", "a", "l", "s", "e">>, i) -> Ok(Bool(FALSE), i + 5)
       [] c = "n" /\ StartsWithAt(t, <<"n", "u", "l", "l">>, i) -> Ok(Null, i + 4)
       [] c = "-" \/ IsDigit(c) -> ParseNumber(t, i)
       [] OTHER -> Fail

\* JSON.parse(text): ok = FALSE stands for the SyntaxError it throws.
JSONParse(text) ==
  LET Whole(r) ==
        IF r.ok /\ SkipWhitespace(text, r.i) = Len(text) + 1 THEN r ELSE Fail
  IN Whole(ParseValue(text, 1))

----------------------------------------------------------------------------
(* src/index.js: getNameFromArn *)

\* /\d\d\d:(.*)$/ tried at the 0-based start i: three digits and a colon,
\* then "." up to the end of the input (it matches no line terminator, and
\* without the m flag "$" is the end of the input only).
ArnRegexMatchesAt(arn, i) ==
  /\ i + 4 <= Len(arn)
  /\ IsDigit(arn[i + 1]) /\ IsDigit(arn[i + 2]) /\ IsDigit(arn[i + 3])
  /\ arn[i + 4] = ":"
  /\ \A j \in (i + 5)..Len(arn) : arn[j] \notin LineTerminators

\* A match at the rightmost start instead of the leftmost.
ArnMatchRightmost(arn) ==
  LET starts == {i \in 0..Len(arn) : ArnRegexMatchesAt(arn, i)}
  IN IF starts = {} THEN [matched |-> FALSE, group |-> <<>>]
     ELSE [matched |-> TRUE,
           group |-> SubSeq(arn, (CHOOSE i \in starts : \A k \in starts : k <= i) + 5,
                            Len(arn))]

\* String.prototype.match: the leftmost start the regex matches at; the match
\* array holds the captured group at index 1.  matched = FALSE is null.
ArnMatch(arn) ==
  LET starts == {i \in 0..Len(arn) : ArnRegexMatchesAt(arn, i)}
  IN IF starts = {} THEN [matched |-> FALSE, group |-> <<>>]
     ELSE [matched |-> TRUE, group |-> SubSeq(arn, Least(starts) + 5, Len(arn))]

\* Indexing the null of a failed match throws a TypeError, which the catch
\* turns into false.
getNameFromArn(arn) ==
  LET Matched(m) == IF m.matched THEN Str(m.group) ELSE Bool(FALSE)
  IN Matched(ArnMatch(arn))

----------------------------------------------------------------------------
(* src/index.js: getColorBySeverity *)

\* String.prototype.indexOf: the 0-based index of the first occurrence of s
\* in text, INDEX_OF_NOT_PRESENT when there is none.
IndexOf(text, s) ==
  LET at == {i \in 0..(Len(text) - Len(s)) : \A j \in 1..Len(s) : text[i + j] = s[j]}
  IN IF at = {} THEN INDEX_OF_NOT_PRESENT ELSE Least(at)

\* for ( const item in messages ) if ( -1 !== text.indexOf( messages[item] ) )
RECURSIVE AnyMessagePresent(_, _, _)
AnyMessagePresent(messages, text, item) ==
  IF item > Len(messages) THEN FALSE
  ELSE IF INDEX_OF_NOT_PRESENT # IndexOf(text, messages[item]) THEN TRUE
  ELSE AnyMessagePresent(messages, text, item + 1)

\* The two loops in the other order.
getColorWarningFirst(text) ==
  IF AnyMessagePresent(warningMessages, text, 1) THEN "warning"
  ELSE IF AnyMessagePresent(dangerMessages, text, 1) THEN "danger"
  ELSE "good"

getColorBySeverity(text) ==
  IF AnyMessagePresent(dangerMessages, text, 1) THEN "danger"
  ELSE IF AnyMessagePresent(warningMessages, text, 1) THEN "warning"
  ELSE "good"

----------------------------------------------------------------------------
(* src/filters/config-changes.js *)

\* The filter's outcome: whether it threw, the object graph rooted at its
\* argument after the call, and the path in that graph of the value returned
\* (<<>> is the argument itself).  The graphs of the model are trees, so two
\* paths name the same object only when they are equal.
FilterOutcome(threw, graph, path) == [threw |-> threw, heap |-> graph, path |-> path]

\* The guard without its test of the message type.
NotAConfigChangeByDiff(input) == ~Truthy(Get(input, K_configurationItemDiff))

\* ! input.configurationItemDiff ||
\*   'ConfigurationItemChangeNotification' !== input.messageType
NotAConfigChange(input) ==
  \/ ~Truthy(Get(input, K_configurationItemDiff))
  \/ Str(S_ConfigurationItemChangeNotification) # Get(input, K_messageType)

\* output.changedProperties && output.changeType &&
\*   TWO_PROPERTIES === Object.keys( output ).length
OnlyChangedPropertiesAndChangeType(diff) ==
  /\ Truthy(Get(diff, K_changedProperties))
  /\ Truthy(Get(diff, K_changeType))
  /\ TWO_PROPERTIES = Len(ObjectKeys(diff))

\* output.changeType || input.configurationItemDiff.changeType
ChangeTypeOf(changed, diff) ==
  IF Truthy(Get(changed, K_changeType))
    THEN Get(changed, K_changeType)
    ELSE Get(diff, K_changeType)

configChanges(input) ==
  LET diffPath == <<K_configurationItemDiff>>
      diff == Get(input, K_configurationItemDiff)
      changedPath == <<K_configurationItemDiff, K_changedProperties>>
      changed == Get(diff, K_changedProperties)
  IN IF NotAConfigChange(input) THEN FilterOutcome(FALSE, input, <<>>)
     ELSE IF OnlyChangedPropertiesAndChangeType(diff)
       THEN IF IsObject(changed)
              THEN FilterOutcome(FALSE,
                     PutPath(input, Append(changedPath, K_changeType),
                             ChangeTypeOf(changed, diff)),
                     changedPath)
              \* strict mode: creating a property on a primitive is a TypeError
              ELSE FilterOutcome(TRUE, input, changedPath)
     ELSE FilterOutcome(FALSE, input, diffPath)

----------------------------------------------------------------------------
(* src/index.js: applyParsingFilters *)

\* globby.sync( 'filters/**/*.js' ): the filter modules of the repository.
parsingFilters == <<"filters/config-changes.js">>

\* require( filter )( output )
RunFilter(filter, output) ==
  CASE filter = "filters/config-changes.js" -> configChanges(output)

\* The forEach over parsingFilters from the filter at index item on; calls
\* counts the filters called.
RECURSIVE ApplyFiltersFrom(_, _)
ApplyFiltersFrom(item, output) ==
  LET Filtered(r) ==
        IF r.threw THEN [threw |-> TRUE, v |-> Undefined, calls |-> item]
        ELSE ApplyFiltersFrom(item + 1, GetPath(r.heap, r.path))
  IN IF item > Len(parsingFilters)
       THEN [threw |-> FALSE, v |-> output, calls |-> item - 1]
       ELSE Filtered(RunFilter(parsingFilters[item], output))

applyParsingFilters(input) == ApplyFiltersFrom(1, input)

----------------------------------------------------------------------------
(* src/index.js: maybeGetAttachmentFields *)

\* A loop that only steps down into a value that is itself an object.
RECURSIVE UnwrapWhileObject(_)
UnwrapWhileObject(data) ==
  IF /\ IsObject(data)
     /\ ONE_PROPERTY = Len(ObjectKeys(data))
     /\ IsObject(Get(data, Head(ObjectKeys(data))))
    THEN UnwrapWhileObject(Get(data, Head(ObjectKeys(data))))
    ELSE [threw |-> FALSE, v |-> data]

\* while ( 'object' === typeof data && ONE_PROPERTY === Object.keys( data ).length )
\*   data = data[ Object.keys( data ).shift() ];
RECURSIVE UnwrapSingleProperty(_)
UnwrapSingleProperty(data) ==
  LET Keyed(keys) ==
        IF ONE_PROPERTY = Len(keys) THEN UnwrapSingleProperty(Get(data, Head(keys)))
        ELSE [threw |-> FALSE, v |-> data]
  IN IF "object" # TypeOf(data) THEN [threw |-> FALSE, v |-> data]
     ELSE IF ObjectKeysThrows(data) THEN [threw |-> TRUE, v |-> data]
     ELSE Keyed(ObjectKeys(data))

\* The comparison off by one.
IsShorter(value) == Len(value) < SLACK_COLUMN_LENGTH

IsShort(value) == Len(value) <= SLACK_COLUMN_LENGTH

AttachmentField(key, property) ==
  LET Field(value) == [title |-> key, value |-> value, short |-> IsShort(value)]
  IN Field(IF "string" = TypeOf(property) THEN property.s ELSE JSONStringify(property))

\* Object.keys( data ).forEach( ... fields.push( ... ) )
AttachmentFields(data) ==
  LET Each(keys) == [i \in 1..Len(keys) |-> AttachmentField(keys[i], Get(data, keys[i]))]
  IN Each(ObjectKeys(data))

\* What the call did: threw, or returned v (a string, or an array of fields
\* with t = "array"); filterCalls counts the filters it ran.
Flattened(threw, v, filterCalls) == [threw |-> threw, v |-> v, filterCalls |-> filterCalls]

FieldArray(fields) == [t |-> "array", fields |-> fields]

maybeGetAttachmentFields(text) ==
  LET Unwrapped(data, calls) ==
        IF data.threw THEN Flattened(TRUE, Undefined, calls)
        ELSE IF ~isPlainObj(data.v)
          THEN Flattened(FALSE, Str(JSONStringify(data.v)), calls)
        ELSE Flattened(FALSE, FieldArray(AttachmentFields(data.v)), calls)
      Filtered(f) ==
        IF f.threw THEN Flattened(TRUE, Undefined, f.calls)
        ELSE Unwrapped(UnwrapSingleProperty(f.v), f.calls)
      Parsed(p) ==
        IF ~p.ok THEN Flattened(FALSE, Str(text), 0)
        ELSE IF ~isPlainObj(p.v) THEN Flattened(FALSE, Str(text), 0)
        ELSE Filtered(applyParsingFilters(p.v))
  IN Parsed(JSONParse(text))

----------------------------------------------------------------------------
(* src/index.js: exports.handler *)

\* A replace without the g flag: only the first match goes.
TrimFirstQuote(text) ==
  IF text # <<>> /\ Head(text) = Quote THEN Tail(text)
  ELSE IF text # <<>> /\ text[Len(text)] = Quote THEN SubSeq(text, 1, Len(text) - 1)
  ELSE text

\* text.replace( /(^"|"$)/g, '' ): a double quote at the start and, among the
\* characters after it, a double quote at the end.
TrimQuotes(text) ==
  LET a == IF text # <<>> /\ Head(text) = Quote THEN Tail(text) ELSE text
  IN IF a # <<>> /\ a[Len(a)] = Quote THEN SubSeq(a, 1, Len(a) - 1) ELSE a

\* The attachment once the flattener's result r has been put in it.
Attachment(color, footer, r) ==
  IF "object" = TypeOf(r)
    THEN [color |-> color, text |-> <<>>, footer |-> footer, fields |-> r.fields]
    ELSE [color |-> color, text |-> TrimQuotes(r.s), footer |-> footer]

\* The handler up to its call of sendToSlack: threw, or the message it built.
handler(sns) ==
  LET arn == sns.TopicArn
      Named(topicName) == IF Truthy(topicName) THEN topicName.s ELSE arn
      text == IF Truthy(sns.Subject) THEN <<"*">> \o sns.Subject.s \o <<"*">> ELSE <<>>
      footer == IF Truthy(sns.UnsubscribeUrl)
                  THEN <<"<">> \o sns.UnsubscribeUrl.s
                         \o <<"|", "U", "n", "s", "u", "b", "s", "c", "r", "i", "b", "e", ">">>
                  ELSE <<>>
      Built(flat) ==
        IF flat.threw THEN [threw |-> TRUE]
        ELSE [threw |-> FALSE,
              message |-> [text |-> text, username |-> Named(getNameFromArn(arn)),
                           attachments |-> <<Attachment(getColorBySeverity(sns.Message),
                                                        footer, flat.v)>>]]
  IN Built(maybeGetAttachmentFields(sns.Message))

----------------------------------------------------------------------------
(* The inputs: what the Lambda runtime, the unit tests and the flattener    *)
(* pass to the entry points.                                                *)

MaxProps == 2      \* properties of a generated flat mapping
MaxWrap == 2       \* single-property wrappers around a generated value
MaxPieces == 3     \* pieces of a generated sentence
MaxArnPieces == 4  \* pieces of a generated resource identifier

Rep(c, n) == [i \in 1..n |-> c]

K_a == <<"a">>
K_b == <<"b">>
K_1 == <<"1">>
S_UPDATE == <<"U", "P", "D", "A", "T", "E">>
S_CREATE == <<"C", "R", "E", "A", "T", "E">>
S_Other == <<"O", "t", "h", "e", "r">>

\* All sequences of at most n elements of S.
SeqsUpTo(S, n) == UNION {[1..k -> S] : k \in 0..n}

RECURSIVE Concat(_)
Concat(parts) == IF parts = <<>> THEN <<>> ELSE Head(parts) \o Concat(Tail(parts))

\* Property values around the column length: strings of 0, 28 and 29
\* characters, arrays whose JSON text has 28 and 29, and other non-strings.
FieldValues ==
  {Str(Rep("x", n)) : n \in {0, SLACK_COLUMN_LENGTH, SLACK_COLUMN_LENGTH + 1}}
    \cup {Arr(<<Str(Rep("x", n))>>) : n \in {SLACK_COLUMN_LENGTH - 4, SLACK_COLUMN_LENGTH - 3}}
    \cup {Num(1), Null, Obj(<<K_a>>, <<Str(K_b)>>)}

KeyPool == {K_a, K_b, K_1}

\* Mappings of at most MaxProps properties, in every creation order.
FlatMappings ==
  UNION {{Obj(ks, vs) : ks \in {s \in [1..n -> KeyPool] :
                                  \A i, j \in 1..n : i # j => s[i] # s[j]},
                        vs \in [1..n -> FieldValues]} : n \in 0..MaxProps}

\* Values put inside single-property wrappers.
WrapCores ==
  { Null, Bool(TRUE), Bool(FALSE), Num(0), Num(12), Str(<<>>), Str(K_b),
    Arr(<<>>), Arr(<<Num(1), Num(2)>>), Obj(<<>>, <<>>),
    Obj(<<K_a, K_b>>, <<Str(K_b), Num(1)>>),
    Obj(<<K_b, K_1>>, <<Null, Str(K_a)>>) }

\* v inside the wrappers of chain, outermost first: {"a": ...} or [ ... ].
RECURSIVE Wrap(_, _)
Wrap(chain, v) ==
  IF chain = <<>> THEN v
  ELSE IF Head(chain) = "obj" THEN Obj(<<K_a>>, <<Wrap(Tail(chain), v)>>)
  ELSE Arr(<<Wrap(Tail(chain), v)>>)

WrappedValues ==
  {Wrap(chain, v) : chain \in SeqsUpTo({"obj", "arr"}, MaxWrap), v \in WrapCores}

\* AWS Config notifications and their near misses.
ChangedProperties ==
  { Obj(<<>>, <<>>),
    Obj(<<K_a>>, <<Num(1)>>),
    Obj(<<K_b, K_1>>, <<Str(K_b), Num(1)>>),
    Obj(<<K_changeType>>, <<Str(S_CREATE)>>),
    Obj(<<K_changeType, K_a>>, <<Str(S_CREATE), Num(1)>>),
    Obj(<<K_changeType, K_a>>, <<Str(<<>>), Num(1)>>),
    Obj(<<K_a, K_changeType>>, <<Num(1), Null>>),
    Obj(<<K_changeType>>, <<Num(0)>>),
    Null, Str(<<>>), Str(K_b), Num(0), Num(1), Bool(TRUE),
    Arr(<<>>), Arr(<<Str(K_b)>>) }

ChangeTypes == {Str(S_UPDATE), Str(<<>>), Null, Num(1)}

ConfigurationItemDiffs ==
  {Obj(<<K_changedProperties, K_changeType>>, <<cp, ct>>) :
     cp \in ChangedProperties, ct \in ChangeTypes}
    \cup {Obj(<<K_changeType, K_changedProperties>>, <<ct, cp>>) :
            cp \in ChangedProperties, ct \in ChangeTypes}
    \cup {Obj(<<K_changedProperties, K_changeType, K_a>>, <<cp, ct, Str(K_b)>>) :
            cp \in ChangedProperties, ct \in ChangeTypes}
    \cup {Obj(<<K_changedProperties>>, <<cp>>) : cp \in ChangedProperties}
    \cup {Obj(<<K_changedProperties, K_a>>, <<cp, Str(K_b)>>) : cp \in ChangedProperties}
    \cup {Null, Str(<<>>), Str(K_b), Num(1), Obj(<<>>, <<>>), Arr(<<Str(K_b)>>)}

ConfigMessages ==
  {Obj(<<K_configurationItemDiff, K_messageType>>, <<d, mt>>) :
     d \in ConfigurationItemDiffs,
     mt \in {Str(S_ConfigurationItemChangeNotification), Str(S_Other)}}
    \cup {Obj(<<K_configurationItemDiff>>, <<d>>) : d \in ConfigurationItemDiffs}
    \cup {Obj(<<K_messageType>>, <<Str(S_ConfigurationItemChangeNotification)>>),
          Obj(<<K_messageType, K_a>>, <<Str(S_ConfigurationItemChangeNotification), Str(K_b)>>)}

\* The JSON documents producers send.
JsonDocs == FlatMappings \cup WrappedValues \cup ConfigMessages

\* The text a producer writes for a document: properties in creation order.
WriteText(d) == Serialise(d, FALSE)

\* A text that is not a JSON document has no document.
NoDoc == Undefined

Message(text, d) == [text |-> text, doc |-> d]

\* Sentences in which the danger and warning substrings arise, overlap and
\* nearly arise across the pieces: "Pending to Degraded" (danger), "Degraded
\* to Info" and "Ok to Info" (warning), " to RED" (danger).
SentencePieces ==
  { <<"P", "e", "n", "d", "i", "n", "g", " ", "t", "o", " ">>,
    <<"D", "e", "g", "r", "a", "d", "e", "d">>,
    <<" ", "t", "o", " ", "I", "n", "f", "o">>,
    <<" ", "t", "o", " ", "R", "E", "D">>,
    <<"O", "k">>,
    <<"x">> }

Sentences == {Concat(ps) : ps \in SeqsUpTo(SentencePieces, MaxPieces)}

\* Texts JSON.parse rejects: truncated, trailing characters, unquoted or
\* single-quoted names, a missing value, trailing commas, a leading zero, a raw
\* line break in a string, two documents.
MalformedTexts ==
  { <<"{", "\"", "a", "\"", ":", "\"", "b", "\"">>,
    <<"{", "\"", "a", "\"", ":", "\"", "b", "\"", "}", "x">>,
    <<"{", "a", ":", "1", "}">>,
    <<"{", "'", "a", "'", ":", "'", "b", "'", "}">>,
    <<"{", "\"", "a", "\"", ":", "}">>,
    <<"{", "\"", "a", "\"", ":", "\"", "b", "\"", ",", "}">>,
    <<"[", "1", ",", "]">>,
    <<"n", "u", "l">>,
    <<"\"", "a", "b", "c">>,
    <<"0", "1">>,
    <<"-">>,
    <<"{", "\"", "a", "\"", " ", "\"", "b", "\"", "}">>,
    <<"{", "\"", "a", "\"", ":", "\"", "b", "\"", "}", "{", "\"", "a", "\"", ":", "\"", "b", "\"", "}">>,
    <<"{">>,
    <<"{", "\"", "a", "\"", ":", "\"", "b", "\n", "c", "\"", "}">> }

\* Texts written by hand, with the value JSON.parse gives for them:
\* whitespace, a repeated name, escapes, a negative number, and the JSON
\* strings of the unit tests.
WrittenTexts ==
  { Message(<<"{", " ", "\"", "a", "\"", " ", ":", " ", "\"", "b", "\"", " ", "}">>,
            Obj(<<K_a>>, <<Str(K_b)>>)),
    Message(<<"\n", "[", " ", "1", " ", ",", " ", "2", " ", "]", "\n">>,
            Arr(<<Num(1), Num(2)>>)),
    Message(<<"{", "\"", "a", "\"", ":", "1", ",", "\"", "a", "\"", ":", "\"", "b", "\"", "}">>,
            Obj(<<K_a>>, <<Str(K_b)>>)),
    Message(<<"{", "\"", "a", "\"", ":", "\"", "s", "a", "y", " ", "\\", "\"", "h", "i", "\\", "\"", "\"", "}">>,
            Obj(<<K_a>>, <<Str(<<"s", "a", "y", " ", "\"", "h", "i", "\"">>)>>)),
    Message(<<"-", "1">>, Num(-1)),
    Message(failedBuildText, Str(SubSeq(failedBuildText, 2, Len(failedBuildText) - 1))),
    Message(inProgressBuildText,
            Str(SubSeq(inProgressBuildText, 2, Len(inProgressBuildText) - 1))) }

\* sns.Message
Messages ==
  {Message(WriteText(d), d) : d \in JsonDocs}
    \cup WrittenTexts
    \cup {Message(s, NoDoc) : s \in Sentences \cup MalformedTexts \cup {genericText}}

\* sns.TopicArn
ArnPieces ==
  { <<"1", "2", "3", ":">>, <<"1", "2", ":">>, <<"9">>, <<"a">>, <<"\n">> }

Arns == {Concat(ps) : ps \in SeqsUpTo(ArnPieces, MaxArnPieces)} \cup {sampleArn}

S_Build == <<"B", "u", "i", "l", "d">>
S_UnsubscribeUrl ==
  <<"h", "t", "t", "p", "s", ":", "/", "/", "s", "n", "s", "/", "u", "n", "s", "u", "b", "s", "c", "r", "i", "b", "e">>

\* The Sns record of the event's first record.
Sns(arn, subject, message, unsubscribeUrl) ==
  [TopicArn |-> arn, Subject |-> subject, Message |-> message,
   UnsubscribeUrl |-> unsubscribeUrl]

Call(f, a, d) == [fn |-> f, arg |-> a, doc |-> d]

\* Every message from the topic of the tests, and a few messages from other
\* topics, with and without a subject and an unsubscribe link.
HandlerCalls ==
  {Call("handler", Sns(sampleArn, Str(S_Build), m.text, Str(S_UnsubscribeUrl)), m.doc) :
     m \in Messages}
    \cup {Call("handler", Sns(a, s, m.text, u), m.doc) :
            a \in {<<"1", "2", "3", ":">>, <<"t", "o", "p", "i", "c">>,
                   <<"1", "2", "3", ":", "4", "5", "6", ":", "n", "a", "m", "e">>},
            s \in {Undefined, Str(<<>>), Str(S_Build)},
            u \in {Undefined, Str(S_UnsubscribeUrl)},
            m \in {Message(genericText, NoDoc),
                   Message(WriteText(Obj(<<K_a>>, <<Str(K_b)>>)), Obj(<<K_a>>, <<Str(K_b)>>))}}

\* The calls of the exported functions and of the filter module.
Calls ==
  HandlerCalls
    \cup {Call("getNameFromArn", a, NoDoc) : a \in Arns}
    \cup {Call("getColorBySeverity", m.text, m.doc) : m \in Messages}
    \cup {Call("maybeGetAttachmentFields", m.text, m.doc) : m \in Messages}
    \cup {Call("configChanges", d, d) : d \in {x \in JsonDocs : isPlainObj(x)}}

----------------------------------------------------------------------------
(* The state machine: a call arrives, its function runs to its end. *)

Init ==
  \E c \in Calls :
    /\ fn = c.fn
    /\ arg = c.arg
    /\ doc = c.doc
    /\ heap = IF c.fn = "configChanges" THEN c.arg ELSE Undefined
    /\ pc = "called"
    /\ ret = Undefined

\* exports.handler, to its call of sendToSlack, which writes the request.
Handler ==
  /\ fn = "handler" /\ pc = "called"
  /\ \E r \in {handler(arg)} :
       /\ pc' = IF r.threw THEN "threw" ELSE "sent"
       /\ ret' = r
  /\ UNCHANGED <<fn, arg, doc, heap>>

\* sendToSlack: the response has ended; callback( null, body ).
SlackResponse ==
  /\ fn = "handler" /\ pc = "sent"
  /\ pc' = "responded"
  /\ ret' = [threw |-> FALSE, message |-> ret.message, callback |-> <<Null, Str(<<"o", "k">>)>>]
  /\ UNCHANGED <<fn, arg, doc, heap>>

\* sendToSlack: the request failed; the error listener throws.
SlackError ==
  /\ fn = "handler" /\ pc = "sent"
  /\ pc' = "failed"
  /\ UNCHANGED <<fn, arg, doc, heap, ret>>

GetNameFromArn ==
  /\ fn = "getNameFromArn" /\ pc = "called"
  /\ pc' = "returned"
  /\ ret' = getNameFromArn(arg)
  /\ UNCHANGED <<fn, arg, doc, heap>>

GetColorBySeverity ==
  /\ fn = "getColorBySeverity" /\ pc = "called"
  /\ pc' = "returned"
  /\ ret' = getColorBySeverity(arg)
  /\ UNCHANGED <<fn, arg, doc, heap>>

MaybeGetAttachmentFields ==
  /\ fn = "maybeGetAttachmentFields" /\ pc = "called"
  /\ \E r \in {maybeGetAttachmentFields(arg)} :
       /\ pc' = IF r.threw THEN "threw" ELSE "returned"
       /\ ret' = r
  /\ UNCHANGED <<fn, arg, doc, heap>>

\* The filter called on a plain object: heap is the argument's object graph,
\* which the filter may write to; ret is the path of the value it returned.
ConfigChanges ==
  /\ fn = "configChanges" /\ pc = "called"
  /\ \E r \in {configChanges(heap)} :
       /\ pc' = IF r.threw THEN "threw" ELSE "returned"
       /\ heap' = r.heap
       /\ ret' = r.path
  /\ UNCHANGED <<fn, arg, doc>>

Next ==
  \/ Handler
  \/ SlackResponse
  \/ SlackError
  \/ GetNameFromArn
  \/ GetColorBySeverity
  \/ MaybeGetAttachmentFields
  \/ ConfigChanges

Spec == Init /\ [][Next]_vars

----------------------------------------------------------------------------
(* The claims *)

Finished(f) == fn = f /\ pc # "called"
Returned(f) == fn = f /\ pc = "returned"
Sent == fn = "handler" /\ pc \in {"sent", "responded", "failed"}

\* s occurs in text.
Contains(text, s) ==
  \E i \in 1..(Len(text) - Len(s) + 1) : SubSeq(text, i, i + Len(s) - 1) = s

\* The text is a JSON document whose value is a plain mapping.
IsMappingDoc == doc # NoDoc /\ doc.t = "obj"

\* The mapping has exactly one own property, and its value is a string.
IsSingleStringMapping == IsMappingDoc /\ Len(doc.ks) = 1 /\ doc.vs[1].t = "str"

T_ab == <<"{", Quote, "a", Quote, ":", Quote, "b", Quote, "}">>

\* C1, as claimed: the flattener turns a text that parses to a mapping with
\* exactly one own property, whose value is a string, into a sequence holding
\* one display field for that property.
C1_SingleStringPropertyGivesOneField ==
  (Finished("maybeGetAttachmentFields") /\ IsSingleStringMapping) =>
    /\ pc = "returned"
    /\ ret.v = FieldArray(<<[title |-> doc.ks[1], value |-> doc.vs[1].s,
                             short |-> Len(doc.vs[1].s) <= 28]>>)

\* C1, amended: the flattener turns such a text into a string, the JSON text
\* of the property's value (a double-quoted string literal denoting it), and
\* '{"a":"b"}' into '"b"'.
C1_SingleStringPropertyGivesQuotedString ==
  (Finished("maybeGetAttachmentFields") /\ IsSingleStringMapping) =>
    /\ pc = "returned"
    /\ ret.v.t = "str"
    /\ Head(ret.v.s) = Quote /\ ret.v.s[Len(ret.v.s)] = Quote
    /\ JSONParse(ret.v.s) = Ok(Str(doc.vs[1].s), Len(ret.v.s) + 1)
    /\ (\A i \in 1..Len(doc.vs[1].s) : doc.vs[1].s[i] \notin NeedsEscape)
         => ret.v.s = <<Quote>> \o doc.vs[1].s \o <<Quote>>
    /\ arg = T_ab => ret.v = Str(<<Quote, "b", Quote>>)

C1_Witness == Returned("maybeGetAttachmentFields") /\ arg = T_ab

\* C2: the handler builds its message for every event whose message is a
\* string, without throwing.
C2_AssemblyNeverThrows == fn = "handler" => pc # "threw"

\* C3: getColorBySeverity gives "danger" when the text contains a danger
\* substring, wherever warning substrings occur; otherwise "warning" when it
\* contains a warning substring; otherwise "good".  The handler colours its
\* attachment so.
SeverityOf(text) ==
  IF \E i \in 1..Len(dangerMessages) : Contains(text, dangerMessages[i]) THEN "danger"
  ELSE IF \E i \in 1..Len(warningMessages) : Contains(text, warningMessages[i]) THEN "warning"
  ELSE "good"

C3_SeverityBySubstring ==
  /\ Returned("getColorBySeverity") => ret = SeverityOf(arg)
  /\ Sent => ret.message.attachments[1].color = SeverityOf(arg.Message)

\* A text with a warning substring that starts before its danger substring.
C3_Witness ==
  /\ Returned("getColorBySeverity") /\ ret = "danger"
  /\ \E w \in 1..Len(warningMessages), d \in 1..Len(dangerMessages) :
       /\ Contains(arg, warningMessages[w]) /\ Contains(arg, dangerMessages[d])
       /\ IndexOf(arg, warningMessages[w]) < IndexOf(arg, dangerMessages[d])

\* The filter's argument is a config change whose diff is a plain mapping.
IsConfigChange ==
  /\ HasOwn(arg, K_configurationItemDiff)
  /\ isPlainObj(Get(arg, K_configurationItemDiff))
  /\ Get(arg, K_messageType) = Str(S_ConfigurationItemChangeNotification)

ArgDiff == Get(arg, K_configurationItemDiff)

\* The diff has exactly the two properties changedProperties, a mapping, and
\* changeType.
DiffIsCombinable ==
  /\ Len(ArgDiff.ks) = 2
  /\ HasOwn(ArgDiff, K_changedProperties) /\ HasOwn(ArgDiff, K_changeType)
  /\ isPlainObj(Get(ArgDiff, K_changedProperties))

\* C4: on a config change whose diff has exactly the two properties
\* changedProperties and changeType, the filter returns the changedProperties
\* mapping, with the diff's changeType added under the key changeType unless
\* the mapping has that key already, whose value is then kept; on a diff with
\* other properties it returns the diff itself.
C4_DiffIsReducedAndCombined ==
  (Finished("configChanges") /\ IsConfigChange) =>
    /\ pc = "returned"
    /\ IF DiffIsCombinable
         THEN LET changed == Get(ArgDiff, K_changedProperties)
              IN GetPath(heap, ret) =
                   IF HasOwn(changed, K_changeType) THEN changed
                   ELSE Obj(Append(changed.ks, K_changeType),
                            Append(changed.vs, Get(ArgDiff, K_changeType)))
         ELSE ret = <<K_configurationItemDiff>> /\ GetPath(heap, ret) = ArgDiff

\* C5: the filter leaves its argument, and everything reachable from it, as
\* it was.
C5_FilterLeavesItsInput == Finished("configChanges") => heap = arg

\* Where "three digits and a colon" starts in the identifier (0-based).
DigitsColonAt(arn, i) ==
  /\ i + 4 <= Len(arn)
  /\ \A k \in 1..3 : arn[i + k] \in {"0", "1", "2", "3", "4", "5", "6", "7", "8", "9"}
  /\ arn[i + 4] = ":"

Occurrences(arn) == {i \in 0..Len(arn) : DigitsColonAt(arn, i)}

\* The occurrences with no line terminator between their colon and the end.
OnLastLine(arn) ==
  {i \in Occurrences(arn) : \A k \in (i + 5)..Len(arn) : arn[k] \notin {"\n", "\r"}}

After(arn, i) == SubSeq(arn, i + 5, Len(arn))

codebuildNotifications ==
  <<"c", "o", "d", "e", "b", "u", "i", "l", "d", "-",
    "n", "o", "t", "i", "f", "i", "c", "a", "t", "i", "o", "n", "s">>

\* C6, as claimed: getNameFromArn returns what follows the last "three digits
\* and a colon" of the identifier, and false when there is none; the username
\* is that name when there is one and the identifier otherwise.
C6_NameAfterLastOccurrence ==
  /\ Returned("getNameFromArn") =>
       IF Occurrences(arg) = {} THEN ret = Bool(FALSE)
       ELSE \E i \in Occurrences(arg) :
              /\ \A k \in Occurrences(arg) : k <= i
              /\ ret = Str(After(arg, i))
  /\ Sent =>
       LET arn == arg.TopicArn
       IN IF Occurrences(arn) = {} THEN ret.message.username = arn
          ELSE \E i \in Occurrences(arn) :
                 /\ \A k \in Occurrences(arn) : k <= i
                 /\ ret.message.username = After(arn, i)

\* C6, amended: getNameFromArn returns what follows the first "three digits
\* and a colon" that has no line terminator after it, and false when there is
\* none; the username is that name when it is a non-empty string and the
\* identifier otherwise.
C6_NameAfterFirstOccurrence ==
  /\ Returned("getNameFromArn") =>
       IF OnLastLine(arg) = {} THEN ret = Bool(FALSE)
       ELSE \E i \in OnLastLine(arg) :
              /\ \A k \in OnLastLine(arg) : i <= k
              /\ ret = Str(After(arg, i))
  /\ Sent =>
       LET arn == arg.TopicArn
       IN IF OnLastLine(arn) = {} THEN ret.message.username = arn
          ELSE \E i \in OnLastLine(arn) :
                 /\ \A k \in OnLastLine(arn) : i <= k
                 /\ ret.message.username = IF After(arn, i) = <<>> THEN arn ELSE After(arn, i)
  /\ (Returned("getNameFromArn") /\ arg = sampleArn) =>
       ret = Str(codebuildNotifications)

\* An identifier with two occurrences on its last line.
C6_Witness ==
  Returned("getNameFromArn") /\ Cardinality(OnLastLine(arg)) >= 2 /\ ret.t = "str"

\* C7: in the message handed to sendToSlack, when the flattener returned a
\* field sequence the attachment's fields are that sequence and its text is
\* empty; when it returned a string the attachment has no fields and its text
\* is that string without a leading and without a trailing double quote.
WithoutQuotes(s) ==
  LET from == IF Len(s) >= 1 /\ s[1] = Quote THEN 2 ELSE 1
      to == IF Len(s) >= from /\ s[Len(s)] = Quote THEN Len(s) - 1 ELSE Len(s)
  IN SubSeq(s, from, to)

C7_TextOrFields ==
  Sent =>
    LET attachment == ret.message.attachments[1]
        flat == maybeGetAttachmentFields(arg.Message).v
    IN IF flat.t = "array"
         THEN /\ "fields" \in DOMAIN attachment
              /\ attachment.fields = flat.fields
              /\ attachment.text = <<>>
         ELSE /\ "fields" \notin DOMAIN attachment
              /\ attachment.text = WithoutQuotes(flat.s)

\* The flattener returned a string in double quotes, sent without them.
C7_Witness ==
  /\ fn = "handler" /\ pc = "sent"
  /\ "fields" \notin DOMAIN ret.message.attachments[1]
  /\ Len(arg.Message) >= 2
  /\ Head(arg.Message) = Quote /\ arg.Message[Len(arg.Message)] = Quote
  /\ ret.message.attachments[1].text = SubSeq(arg.Message, 2, Len(arg.Message) - 1)

\* C8: the flattener returns its text as it is, and runs no filter, when the
\* text is not valid JSON and when it is JSON for a value that is no plain
\* mapping.
C8_OtherTextsUnchanged ==
  (Finished("maybeGetAttachmentFields") /\ ~IsMappingDoc) =>
    /\ pc = "returned"
    /\ ret.v = Str(arg)
    /\ ret.filterCalls = 0

\* Valid JSON for an array.
C8_Witness ==
  Returned("maybeGetAttachmentFields") /\ doc # NoDoc /\ doc.t = "arr" /\ ret.v = Str(arg)

\* C9: on a plain object without configurationItemDiff, or whose messageType
\* is not the config change type, the filter returns the object itself, as it
\* was.
C9_FilterIsIdentity ==
  (/\ Finished("configChanges")
   /\ \/ ~HasOwn(arg, K_configurationItemDiff)
      \/ Get(arg, K_messageType) # Str(S_ConfigurationItemChangeNotification)) =>
    /\ pc = "returned"
    /\ ret = <<>>
    /\ heap = arg

\* A diff the filter would combine, under another message type.
C9_Witness ==
  /\ Returned("configChanges")
  /\ Get(arg, K_messageType) = Str(S_Other)
  /\ isPlainObj(ArgDiff)
  /\ DiffIsCombinable
  /\ Truthy(Get(ArgDiff, K_changeType))

\* The value left of the document after the filters and the unwrapping.
Left == UnwrapSingleProperty(applyParsingFilters(doc).v)

\* The flattener reached a plain mapping.
LeftIsMapping ==
  /\ Finished("maybeGetAttachmentFields") /\ IsMappingDoc
  /\ ~applyParsingFilters(doc).threw
  /\ ~Left.threw
  /\ isPlainObj(Left.v)

\* The display field of the property of data named key.
FieldOf(data, key) ==
  LET value == IF Get(data, key).t = "str" THEN Get(data, key).s
               ELSE JSONStringify(Get(data, key))
  IN [title |-> key, value |-> value, short |-> Len(value) <= 28]

\* C10, as claimed: when a plain mapping is left, the flattener returns one
\* display field per own property in the mapping's insertion order, with the
\* key as title, the value itself if a string and its JSON text otherwise,
\* and short exactly when the value has at most 28 characters.
C10_FieldsInInsertionOrder ==
  LeftIsMapping =>
    /\ pc = "returned"
    /\ ret.v.t = "array"
    /\ Len(ret.v.fields) = Len(Left.v.ks)
    /\ \A i \in 1..Len(Left.v.ks) : ret.v.fields[i] = FieldOf(Left.v, Left.v.ks[i])

\* The position of a name in the mapping's insertion order.
InsertedAt(data, key) == CHOOSE i \in 1..Len(data.ks) : data.ks[i] = key

\* C10, amended: the fields are in the order Object.keys gives: the names
\* that are array indices first, in ascending numeric order, then the other
\* names in insertion order.
C10_FieldsInKeyOrder ==
  LeftIsMapping =>
    /\ pc = "returned"
    /\ ret.v.t = "array"
    /\ Len(ret.v.fields) = Len(Left.v.ks)
    /\ \A k \in 1..Len(Left.v.ks) :
         \E i \in 1..Len(ret.v.fields) : ret.v.fields[i] = FieldOf(Left.v, Left.v.ks[k])
    /\ \A i, j \in 1..Len(ret.v.fields) :
         LET a == ret.v.fields[i].title
             b == ret.v.fields[j].title
         IN i < j =>
              IF IsArrayIndex(a)
                THEN IsArrayIndex(b) => CharsToNum(a) < CharsToNum(b)
                ELSE ~IsArrayIndex(b) /\ InsertedAt(Left.v, a) < InsertedAt(Left.v, b)

\* Fields of exactly 28 and of 29 characters, under a numeric name inserted
\* after another name.
C10_Witness ==
  /\ Returned("maybeGetAttachmentFields") /\ IsMappingDoc
  /\ ret.v.t = "array" /\ Len(ret.v.fields) = 2
  /\ Len(doc.ks) = 2 /\ doc.ks[2] = K_1 /\ ret.v.fields[1].title = K_1
  /\ Len(ret.v.fields[1].value) = 28 /\ ret.v.fields[1].short
  /\ Len(ret.v.fields[2].value) = 29 /\ ~ret.v.fields[2].short

=============================================================================
